---- MODULE Spec2Model ----
(***************************************************************************)
(* Room / session state machine of the ecotalk signalling server           *)
(* (src/index.js): the room registry, the participant maps, host election, *)
(* the bounded message log, signal relay, disconnect cleanup and the       *)
(* delayed destruction of empty rooms.                                     *)
(*                                                                         *)
(* A step of the model is one run-to-completion callback of the Node event *)
(* loop: a socket.io event handler, a disconnect, or a setTimeout          *)
(* callback.  JavaScript values are modelled by type: an absent or empty   *)
(* string is "", an absent number is 0 and an absent boolean is FALSE,     *)
(* which are exactly the values `x || d` replaces by d.                    *)
(***************************************************************************)
EXTENDS Integers, Sequences, FiniteSets, TLC

\* ------------------------------------------------------------------ bounds

\* Number of 10-second clock steps a behaviour may take.
MaxTicks == 4
\* Number of send-message events after the initial log of SpecLog.
MaxPosts == 3

\* ------------------------------------------------------- program constants

\* roomData.maxParticipants || 10, and the capacity of an auto-created room.
DefaultMaxParticipants == 10
\* if (room.messages.length > 100) room.messages.shift()
MaxMessages == 100
\* setTimeout(..., 30000)
GraceDelay == 30000

\* The clock advances in thirds of the grace delay.
TickMs == GraceDelay \div 3

\* ------------------------------------------------------------ input domains

\* Connections (socket.id values).  A closed connection's id is never reused.
Sockets == {"s1", "s2", "s3"}
\* Room ids and participant ids are caller-chosen strings ("" stands for an
\* omitted id), so either may be the id of a connection.  Each specification
\* below names the ids it draws from.

\* ------------------------------------------------------------------- state

VARIABLES
    rooms,      \* the registry `rooms` (a Map): sequence of rooms in insertion order
    connected,  \* connections that are open
    closed,     \* connections that were closed
    adapter,    \* socket.io adapter rooms: set of <<name, socket>>
    timers,     \* pending setTimeout callbacks: set of [roomId, due]
    now,        \* the clock, in ms
    last,       \* the inbound event handled by the last step
    out,        \* the outbound events of the last step, in emission order
    posted      \* history: every message send-message stored, oldest first, by room id

vars == <<rooms, connected, closed, adapter, timers, now, last, out, posted>>

\* ------------------------------------------------------- JavaScript helpers

\* x || d on strings, numbers and booleans.
OrStr(x, d) == IF x = "" THEN d ELSE x
OrNum(x, d) == IF x = 0 THEN d ELSE x
OrBool(x, d) == IF x THEN x ELSE d

\* Map with insertion order, as a sequence of records with an `id` field.
MapHas(m, k) == \E i \in DOMAIN m : m[i].id = k
MapIndex(m, k) == CHOOSE i \in DOMAIN m : m[i].id = k
MapGet(m, k) == m[MapIndex(m, k)]
\* Map.prototype.set: an existing key keeps its position.
MapSet(m, k, v) == IF MapHas(m, k) THEN [m EXCEPT ![MapIndex(m, k)] = v] ELSE Append(m, v)
MapDelete(m, k) == SelectSeq(m, LAMBDA e : e.id # k)

\* The first match of a search in iteration order (Array.prototype.find, a
\* loop left by break): the least of the matching indices, 0 if there is none.
FirstIndex(matching) ==
    IF matching = {} THEN 0
    ELSE CHOOSE i \in matching : \A j \in matching : i <= j

\* ------------------------------------------------------ transport (socket.io)

InRoom(ad, n) == {s \in Sockets : <<n, s>> \in ad}
\* io.to(n).emit: every connection in adapter room n.
IoTo(ad, n) == InRoom(ad, n)
\* socket.to(n).emit: every connection in adapter room n except the sender.
SocketTo(ad, s, n) == InRoom(ad, n) \ {s}
\* socket.emit: the connection itself.
SocketEmit(s) == {s}
\* io.emit: every open connection.
IoEmit(conn) == conn
\* A broadcast that also reaches the sender.
SocketBroadcastAll(conn, s) == conn

\* socket.broadcast.emit: every open connection except the sender.
SocketBroadcast(conn, s) == conn \ {s}

\* An emitted event: its name, the connections it is delivered to, and its
\* payload as a record: the object emitted, or a bare value under the name of
\* the variable emitted (userId, participants, availableRooms).
Event(name, to, data) == [ev |-> name, to |-> to, data |-> data]

\* ------------------------------------------------------------------- rooms

NewRoom(roomId, maxParticipants, isPrivate) ==
    [id |-> roomId, maxParticipants |-> maxParticipants, isPrivate |-> isPrivate,
     participants |-> <<>>, messages |-> <<>>]

FormatRoomForClient(room) ==
    [id |-> room.id, maxParticipants |-> room.maxParticipants,
     isPrivate |-> room.isPrivate,
     participants |-> [i \in DOMAIN room.participants |->
                          [id |-> room.participants[i].id,
                           isMuted |-> room.participants[i].isMuted,
                           isVideoEnabled |-> room.participants[i].isVideoEnabled,
                           isHost |-> room.participants[i].isHost]],
     participantCount |-> Len(room.participants)]

Ids(ps) == [i \in DOMAIN ps |-> ps[i].id]

\* The participant map of room roomId in registry rs, empty when there is none.
Participants(rs, roomId) ==
    IF MapHas(rs, roomId) THEN MapGet(rs, roomId).participants ELSE <<>>

\* The history of a room id; it starts afresh when a room of that id is created.
Posted(h, roomId) == IF roomId \in DOMAIN h THEN h[roomId] ELSE <<>>
SetPosted(h, roomId, ms) ==
    [r \in DOMAIN h \cup {roomId} |-> IF r = roomId THEN ms ELSE h[r]]

Init ==
    /\ rooms = <<>>
    /\ connected = {}
    /\ closed = {}
    /\ adapter = {}
    /\ timers = {}
    /\ now = 0
    /\ last = [op |-> "init"]
    /\ out = <<>>
    /\ posted = <<>>

\* io.on('connection'): the connection is open and in the adapter room named
\* by its own id.
Connect(s) ==
    /\ s \notin connected \cup closed
    /\ connected' = connected \cup {s}
    /\ adapter' = adapter \cup {<<s, s>>}
    /\ last' = [op |-> "connection", socket |-> s]
    /\ out' = <<>>
    /\ UNCHANGED <<rooms, closed, timers, now, posted>>

\* socket.on('create-room')
CreateRoom(s, roomId, maxParticipants, isPrivate) ==
    /\ s \in connected
    /\ last' = [op |-> "create-room", socket |-> s, roomId |-> roomId]
    /\ IF MapHas(rooms, roomId)
       THEN /\ out' = <<Event("room-creation-error", SocketEmit(s),
                            [error |-> "Room ID already exists"])>>
            /\ UNCHANGED <<rooms, posted>>
       ELSE LET newRoom == NewRoom(roomId,
                                   OrNum(maxParticipants, DefaultMaxParticipants),
                                   OrBool(isPrivate, FALSE))
            IN /\ rooms' = MapSet(rooms, roomId, newRoom)
               /\ posted' = SetPosted(posted, roomId, <<>>)
               /\ out' = <<Event("room-created", SocketEmit(s), FormatRoomForClient(newRoom)),
                           Event("room-added", SocketBroadcast(connected, s),
                                 FormatRoomForClient(newRoom))>>
    /\ UNCHANGED <<connected, closed, adapter, timers, now>>

\* The participant entry join-room builds.
NewParticipant(s, userId, isMuted, isVideoEnabled, isHost) ==
    [id |-> OrStr(userId, s), socketId |-> s,
     isMuted |-> OrBool(isMuted, TRUE),
     isVideoEnabled |-> OrBool(isVideoEnabled, FALSE),
     isHost |-> isHost]

\* A join that does not check the capacity.
IsFullUnchecked(room) == FALSE

\* A capacity check that is off by one.
IsFullOffByOne(room) == Len(room.participants) > room.maxParticipants

\* Room is full.
IsFull(room) == Len(room.participants) >= room.maxParticipants

\* A host test that also takes the second arrival for the first.
JoinIsHostOffByOne(room) == Len(room.participants) <= 1

\* The first to join is host.
JoinIsHost(room) == Len(room.participants) = 0

\* socket.on('join-room')
JoinRoom(s, roomId, userId, isMuted, isVideoEnabled) ==
    /\ s \in connected
    /\ last' = [op |-> "join-room", socket |-> s, roomId |-> roomId,
                userId |-> OrStr(userId, s)]
    /\ posted' = IF MapHas(rooms, roomId) THEN posted
                 ELSE SetPosted(posted, roomId, <<>>)
    /\ LET rooms1 == IF MapHas(rooms, roomId) THEN rooms
                     ELSE MapSet(rooms, roomId,
                                 NewRoom(roomId, DefaultMaxParticipants, FALSE))
           room == MapGet(rooms1, roomId)
       IN IF IsFull(room)
          THEN /\ rooms' = rooms1
               /\ out' = <<Event("room-error", SocketEmit(s), [error |-> "Room is full"])>>
               /\ UNCHANGED adapter
          ELSE LET participant == NewParticipant(s, userId, isMuted, isVideoEnabled,
                                                 JoinIsHost(room))
                   room2 == [room EXCEPT !.participants =
                                MapSet(room.participants, participant.id, participant)]
                   adapter2 == adapter \cup {<<roomId, s>>}
               IN /\ rooms' = MapSet(rooms1, roomId, room2)
                  /\ adapter' = adapter2
                  /\ out' = <<Event("room-state", SocketEmit(s),
                                    [room |-> FormatRoomForClient(room2),
                                     participants |-> room2.participants,
                                     messages |-> room2.messages]),
                              Event("user-joined", SocketTo(adapter2, s, roomId),
                                    [userId |-> participant.id,
                                     participants |-> Ids(room2.participants)])>>
    /\ UNCHANGED <<connected, closed, timers, now>>

\* ------------------------------------------------------------------- leave

\* A leave that announces the departure before it looks the participant up.
UserNotInRoomAnnounced(st, roomId, userId) ==
    [st EXCEPT !.out = st.out \o <<Event("user-left", IoTo(st.adapter, roomId),
                                     [userId |-> userId])>>]

\* "User not found in room": handleUserLeave returns without effect.
UserNotInRoom(st, roomId, userId) == st

\* handleUserLeave(socket, roomId, userId) on st = [rooms, adapter, timers,
\* out], at clock value t: the record after the call.
HandleUserLeave(st, s, roomId, userId, t) ==
    IF ~MapHas(st.rooms, roomId) THEN st
    ELSE LET room == MapGet(st.rooms, roomId) IN
    IF ~MapHas(room.participants, userId) THEN UserNotInRoom(st, roomId, userId)
    ELSE
    LET user == MapGet(room.participants, userId)
        remaining == MapDelete(room.participants, userId)
        \* socket.leave(roomId), when the caller is the participant's connection
        adapter2 == IF s = user.socketId THEN st.adapter \ {<<roomId, s>>}
                    ELSE st.adapter
        userLeft == Event("user-left", IoTo(adapter2, roomId), [userId |-> userId])
        promote == Len(remaining) # 0 /\ user.isHost
        \* participants[0].isHost = true
        participants2 == IF promote THEN [remaining EXCEPT ![1].isHost = TRUE]
                         ELSE remaining
        hostChanged == IF promote
                       THEN <<Event("host-changed", IoTo(adapter2, roomId),
                                    [userId |-> participants2[1].id])>>
                       ELSE <<>>
        \* setTimeout(() => {...}, 30000) when the room is now empty
        timers2 == IF Len(remaining) = 0
                   THEN st.timers \cup {[roomId |-> roomId, due |-> t + GraceDelay]}
                   ELSE st.timers
        updated == Event("participants-updated", IoTo(adapter2, roomId),
                         [participants |-> participants2])
    IN [rooms |-> MapSet(st.rooms, roomId, [room EXCEPT !.participants = participants2]),
        adapter |-> adapter2,
        timers |-> timers2,
        out |-> st.out \o <<userLeft>> \o hostChanged \o <<updated>>]

\* socket.on('leave-room')
LeaveRoom(s, roomId, userId) ==
    /\ s \in connected
    /\ last' = [op |-> "leave-room", socket |-> s, roomId |-> roomId,
                userId |-> OrStr(userId, s)]
    /\ LET st == HandleUserLeave([rooms |-> rooms, adapter |-> adapter,
                                  timers |-> timers, out |-> <<>>],
                                 s, roomId, OrStr(userId, s), now)
       IN /\ rooms' = st.rooms
          /\ adapter' = st.adapter
          /\ timers' = st.timers
          /\ out' = st.out
    /\ UNCHANGED <<connected, closed, now, posted>>

\* The inner loop of the disconnect handler on one room: leave for the first
\* participant entry whose socketId is the closed connection, then break.
DisconnectRoom(st, s, i, t) ==
    LET ps == st.rooms[i].participants
        k == FirstIndex({j \in DOMAIN ps : ps[j].socketId = s})
    IN IF k = 0 THEN st
       ELSE HandleUserLeave(st, s, st.rooms[i].id, ps[k].id, t)

\* The outer loop of the disconnect handler, from registry entry i on.
RECURSIVE DisconnectScan(_, _, _, _)
DisconnectScan(st, s, i, t) ==
    IF i > Len(st.rooms) THEN st
    ELSE DisconnectScan(DisconnectRoom(st, s, i, t), s, i + 1, t)

\* The transport closes connection s: it leaves every adapter room, then
\* socket.on('disconnect') runs.
Disconnect(s) ==
    /\ s \in connected
    /\ connected' = connected \ {s}
    /\ closed' = closed \cup {s}
    /\ last' = [op |-> "disconnect", socket |-> s]
    /\ LET left == {e \in adapter : e[2] # s}
           st == DisconnectScan([rooms |-> rooms, adapter |-> left,
                                 timers |-> timers, out |-> <<>>], s, 1, now)
       IN /\ rooms' = st.rooms
          /\ adapter' = st.adapter
          /\ timers' = st.timers
          /\ out' = st.out
    /\ UNCHANGED <<now, posted>>

\* ------------------------------------------------------------------ timers

\* The setTimeout callback scheduled by handleUserLeave.
TimerFire(tm) ==
    /\ tm \in timers
    /\ tm.due <= now
    /\ timers' = timers \ {tm}
    /\ last' = [op |-> "timeout", roomId |-> tm.roomId]
    /\ IF MapHas(rooms, tm.roomId) /\ Len(MapGet(rooms, tm.roomId).participants) = 0
       THEN /\ rooms' = MapDelete(rooms, tm.roomId)
            /\ out' = <<Event("room-removed", IoEmit(connected),
                              [roomId |-> tm.roomId])>>
       ELSE /\ out' = <<>>
            /\ UNCHANGED rooms
    /\ UNCHANGED <<connected, closed, adapter, now, posted>>

\* Time passes.  A callback that is due runs before the clock's next step.
Tick ==
    /\ now < MaxTicks * TickMs
    /\ \A tm \in timers : tm.due > now
    /\ now' = now + TickMs
    /\ last' = [op |-> "tick"]
    /\ out' = <<>>
    /\ UNCHANGED <<rooms, connected, closed, adapter, timers, posted>>

\* ----------------------------------------------------------------- messages

\* The message send-message stores.  Message ids are numbers here, 0 for an
\* omitted id; uuid is the value uuidv4() returns.
NewMessage(s, id, senderId, content, uuid) ==
    [id |-> OrNum(id, uuid), senderId |-> OrStr(senderId, s), content |-> content]

\* A log that drops the message just pushed instead of the oldest one.
PushMessageDropNewest(messages, m) ==
    LET pushed == Append(messages, m)
    IN IF Len(pushed) > MaxMessages THEN SubSeq(pushed, 1, MaxMessages) ELSE pushed

\* push, then shift when the log is longer than 100.
PushMessage(messages, m) ==
    LET pushed == Append(messages, m)
    IN IF Len(pushed) > MaxMessages THEN Tail(pushed) ELSE pushed

\* socket.on('send-message')
SendMessage(s, roomId, id, senderId, content, uuid) ==
    /\ s \in connected
    /\ last' = [op |-> "send-message", socket |-> s, roomId |-> roomId]
    /\ IF ~MapHas(rooms, roomId)
       THEN /\ out' = <<>>
            /\ UNCHANGED <<rooms, posted>>
       ELSE LET room == MapGet(rooms, roomId)
                newMessage == NewMessage(s, id, senderId, content, uuid)
            IN /\ rooms' = MapSet(rooms, roomId,
                              [room EXCEPT !.messages = PushMessage(room.messages, newMessage)])
               /\ posted' = SetPosted(posted, roomId,
                                      Append(Posted(posted, roomId), newMessage))
               /\ out' = <<Event("new-message", IoTo(adapter, roomId), newMessage)>>
    /\ UNCHANGED <<connected, closed, adapter, timers, now>>

\* ------------------------------------------------------------------- signal

\* Array.from(room.participants.values()).find(p => p.id === x || p.socketId === x)
Resolve(ps, x) == FirstIndex({i \in DOMAIN ps : ps[i].id = x \/ ps[i].socketId = x})

\* Recipients of socket.to(toParticipant.socketId).emit('signal', ...).
SignalTargets(ad, s, toSocketId) == SocketTo(ad, s, toSocketId)

\* socket.on('signal')
Signal(s, roomId, to, from) ==
    /\ s \in connected
    /\ last' = [op |-> "signal", socket |-> s, roomId |-> roomId, to |-> to,
                from |-> OrStr(from, s)]
    /\ IF ~MapHas(rooms, roomId)
       THEN out' = <<>>
       ELSE LET ps == MapGet(rooms, roomId).participants
                f == Resolve(ps, OrStr(from, s))
                g == Resolve(ps, to)
            IN IF f # 0 /\ g # 0
               THEN out' = <<Event("signal", SignalTargets(adapter, s, ps[g].socketId),
                                   [from |-> ps[f].id])>>
               ELSE out' = <<>>
    /\ UNCHANGED <<rooms, connected, closed, adapter, timers, now, posted>>

\* ----------------------------------------------------------- specifications

\* Membership of one room: three connections create, join and leave room r1
\* under their own ids and a shared caller-supplied id, and disconnect.  The
\* clock stands still, so every behaviour lies inside one grace delay.
HostSockets == {"s1", "s2", "s3"}
HostUserIds == {"", "u1"}

Next ==
    \/ \E s \in HostSockets : Connect(s)
    \/ \E s \in HostSockets, m \in {1, 2} : CreateRoom(s, "r1", m, FALSE)
    \/ \E s \in HostSockets, u \in HostUserIds : JoinRoom(s, "r1", u, FALSE, FALSE)
    \/ \E s \in HostSockets, u \in HostUserIds \cup HostSockets : LeaveRoom(s, "r1", u)
    \/ \E s \in HostSockets : Disconnect(s)

Spec == Init /\ [][Next]_vars

\* The message log: room r1 holds two participants and a log of 0 or 99
\* messages (the state after that many send-message events with ids 1, 2,
\* ...), and MaxPosts more messages are sent, to it and to a room id that is
\* not in the registry.
PreLog == MaxMessages - 1
LogSockets == {"s1", "s2"}
Uuids == {1001}

Prefill(k) == [i \in 1..k |-> NewMessage("s1", i, "", "c1", 0)]

InitLog ==
    /\ connected = LogSockets
    /\ closed = {}
    /\ adapter = {<<"s1", "s1">>, <<"s2", "s2">>, <<"r1", "s1">>, <<"r1", "s2">>}
    /\ timers = {}
    /\ now = 0
    /\ last = [op |-> "init"]
    /\ out = <<>>
    /\ \E k \in {0, PreLog} :
        /\ rooms = <<[NewRoom("r1", DefaultMaxParticipants, FALSE) EXCEPT
                        !.participants = <<NewParticipant("s1", "", FALSE, FALSE, TRUE),
                                           NewParticipant("s2", "", FALSE, FALSE, FALSE)>>,
                        !.messages = Prefill(k)]>>
        /\ posted = SetPosted(<<>>, "r1", Prefill(k))

PostsLeft ==
    LET n == Len(Posted(posted, "r1"))
    IN n < MaxPosts \/ (PreLog <= n /\ n < PreLog + MaxPosts)

NextLog ==
    \E s \in LogSockets, r \in {"r1", "r2"}, id \in {0, 1}, c \in {"c1", "c2"},
       uuid \in Uuids :
        /\ PostsLeft
        /\ SendMessage(s, r, id, "", c, uuid)

SpecLog == InitLog /\ [][NextLog]_vars

\* Signalling between peers: three connections join room r1 under their own
\* ids and a shared caller-supplied id, connection s2 also joins a room whose
\* id is the id of connection s1, and signals are sent that are addressed to
\* participants on other connections or to ids that do not resolve.
SigSockets == {"s1", "s2", "s3"}

PeerAddressed(s, roomId, to) ==
    LET ps == Participants(rooms, roomId)
        g == Resolve(ps, to)
    IN IF g = 0 THEN TRUE ELSE ps[g].socketId # s

NextSignal ==
    \/ \E s \in SigSockets : Connect(s)
    \/ \E s \in SigSockets, u \in {"", "u1"} : JoinRoom(s, "r1", u, FALSE, FALSE)
    \/ JoinRoom("s2", "s1", "", FALSE, FALSE)
    \/ \E s \in SigSockets, r \in {"r1", "r2"}, to \in {"u1", "s1", "s2"},
          from \in {"", "u1"} :
        /\ PeerAddressed(s, r, to)
        /\ Signal(s, r, to, from)

SpecSignal == Init /\ [][NextSignal]_vars

\* The grace delay: two connections join and leave room r1 while the clock
\* runs and the destruction timers fire.
GraceSockets == {"s1", "s2"}

NextGrace ==
    \/ \E s \in GraceSockets : Connect(s)
    \/ \E s \in GraceSockets : JoinRoom(s, "r1", "", FALSE, FALSE)
    \/ \E s \in GraceSockets : LeaveRoom(s, "r1", "")
    \/ \E s \in GraceSockets : Disconnect(s)
    \/ \E tm \in timers : TimerFire(tm)
    \/ Tick

SpecGrace == Init /\ [][NextGrace]_vars

\* ------------------------------------------------------ media flags, lobby

\* participant.isMuted = isMuted, with the video flag changed too.
WithMutedAndVideo(participant, isMuted) ==
    [participant EXCEPT !.isMuted = isMuted, !.isVideoEnabled = ~isMuted]

\* participant.isMuted = isMuted
WithMuted(participant, isMuted) == [participant EXCEPT !.isMuted = isMuted]

\* participant.isVideoEnabled = isVideoEnabled
WithVideo(participant, isVideoEnabled) ==
    [participant EXCEPT !.isVideoEnabled = isVideoEnabled]

\* Registry rs with participant entry p stored under its id in room roomId.
SetParticipant(rs, roomId, p) ==
    LET room == MapGet(rs, roomId)
    IN  MapSet(rs, roomId, [room EXCEPT !.participants = MapSet(room.participants, p.id, p)])

\* The room exists and has a participant under participantId.
HasParticipant(rs, roomId, participantId) ==
    IF MapHas(rs, roomId) THEN MapHas(MapGet(rs, roomId).participants, participantId)
    ELSE FALSE

\* socket.on('toggle-audio')
ToggleAudio(s, roomId, userId, isMuted) ==
    LET participantId == OrStr(userId, s)
    IN /\ s \in connected
       /\ last' = [op |-> "toggle-audio", socket |-> s, roomId |-> roomId,
                   userId |-> participantId, value |-> isMuted]
       /\ IF HasParticipant(rooms, roomId, participantId)
          THEN LET participant == MapGet(Participants(rooms, roomId), participantId)
               IN /\ rooms' = SetParticipant(rooms, roomId, WithMuted(participant, isMuted))
                  /\ out' = <<Event("user-audio-changed", IoTo(adapter, roomId),
                                    [userId |-> participantId, isMuted |-> isMuted])>>
          ELSE /\ out' = <<>>
               /\ UNCHANGED rooms
       /\ UNCHANGED <<connected, closed, adapter, timers, now, posted>>

\* socket.on('toggle-video')
ToggleVideo(s, roomId, userId, isVideoEnabled) ==
    LET participantId == OrStr(userId, s)
    IN /\ s \in connected
       /\ last' = [op |-> "toggle-video", socket |-> s, roomId |-> roomId,
                   userId |-> participantId, value |-> isVideoEnabled]
       /\ IF HasParticipant(rooms, roomId, participantId)
          THEN LET participant == MapGet(Participants(rooms, roomId), participantId)
               IN /\ rooms' = SetParticipant(rooms, roomId,
                                             WithVideo(participant, isVideoEnabled))
                  /\ out' = <<Event("user-video-changed", IoTo(adapter, roomId),
                                    [userId |-> participantId,
                                     isVideoEnabled |-> isVideoEnabled])>>
          ELSE /\ out' = <<>>
               /\ UNCHANGED rooms
       /\ UNCHANGED <<connected, closed, adapter, timers, now, posted>>

\* The filter of get-rooms that also lists private rooms.
IsAvailableIgnoringPrivacy(room) == Len(room.participants) < room.maxParticipants

\* The filter of get-rooms, applied to a formatted room.
IsAvailable(room) == ~room.isPrivate /\ Len(room.participants) < room.maxParticipants

AvailableRooms(rs) ==
    SelectSeq([i \in DOMAIN rs |-> FormatRoomForClient(rs[i])], IsAvailable)

\* socket.on('get-rooms')
GetRooms(s) ==
    /\ s \in connected
    /\ last' = [op |-> "get-rooms", socket |-> s]
    /\ out' = <<Event("rooms-list", SocketEmit(s),
                      [availableRooms |-> AvailableRooms(rooms)])>>
    /\ UNCHANGED <<rooms, connected, closed, adapter, timers, now, posted>>

\* Specification of the lobby: two connections create, join and list two
\* rooms; maxParticipants 0 stands for an absent value.
LobbySockets == {"s1", "s2"}
LobbyRooms == {"r1", "r2"}

NextLobby ==
    \/ \E s \in LobbySockets : Connect(s)
    \/ \E s \in LobbySockets, r \in LobbyRooms, m \in {0, 1, 2}, p \in BOOLEAN :
          CreateRoom(s, r, m, p)
    \/ \E s \in LobbySockets, r \in LobbyRooms : JoinRoom(s, r, "", FALSE, FALSE)
    \/ \E s \in LobbySockets : GetRooms(s)

SpecLobby == Init /\ [][NextLobby]_vars

\* Specification of the media flags: two connections join one room under
\* their connection ids and toggle their own and each other's flags.
MediaSockets == {"s1", "s2"}

NextMedia ==
    \/ \E s \in MediaSockets : Connect(s)
    \/ \E s \in MediaSockets : JoinRoom(s, "r1", "", FALSE, FALSE)
    \/ \E s \in MediaSockets : Disconnect(s)
    \/ \E s \in MediaSockets, r \in {"r1", "r2"}, u \in {""} \cup MediaSockets, b \in BOOLEAN :
          ToggleAudio(s, r, u, b)
    \/ \E s \in MediaSockets, r \in {"r1", "r2"}, u \in {""} \cup MediaSockets, b \in BOOLEAN :
          ToggleVideo(s, r, u, b)

SpecMedia == Init /\ [][NextMedia]_vars

\* Specification of the room broadcast: two connections join room r1 under
\* their connection id and under a caller-supplied id, leave it, and post.
CastSockets == {"s1", "s2"}
CastUserIds == {"", "u1"}

CastPostsLeft == Len(Posted(posted, "r1")) < MaxPosts

NextCast ==
    \/ \E s \in CastSockets : Connect(s)
    \/ \E s \in CastSockets, u \in CastUserIds : JoinRoom(s, "r1", u, FALSE, FALSE)
    \/ \E s \in CastSockets, u \in CastUserIds : LeaveRoom(s, "r1", u)
    \/ \E s \in CastSockets :
        /\ CastPostsLeft
        /\ SendMessage(s, "r1", 0, "", "c1", 1001)

SpecCast == Init /\ [][NextCast]_vars

\* Specification of room destruction with the scheduling the event loop
\* gives: the clock advances and a callback that is due runs.  Rooms are
\* created by create-room or by the first join; a room is left or a
\* connection closed only while the destruction it schedules falls within
\* the clock's range.
LiveSockets == {"s1", "s2"}

TimerInRange == now + GraceDelay <= MaxTicks * TickMs

FireDue == \E tm \in timers : TimerFire(tm)

NextLive ==
    \/ \E s \in LiveSockets : Connect(s)
    \/ \E s \in LiveSockets : CreateRoom(s, "r1", 0, FALSE)
    \/ \E s \in LiveSockets : JoinRoom(s, "r1", "", FALSE, FALSE)
    \/ \E s \in LiveSockets : TimerInRange /\ LeaveRoom(s, "r1", "")
    \/ \E s \in LiveSockets : TimerInRange /\ Disconnect(s)
    \/ FireDue
    \/ Tick

SpecLive == Init /\ [][NextLive]_vars /\ WF_now(Tick) /\ WF_timers(FireDue)


\* ------------------------------------------------- vocabulary of the claims

IdSet(ps) == {ps[i].id : i \in DOMAIN ps}
ConnectionRefs(ps) == {ps[i].socketId : i \in DOMAIN ps}
Hosts(ps) == {i \in DOMAIN ps : ps[i].isHost}
EventNames(o) == [i \in DOMAIN o |-> o[i].ev]
LeaveOps == {"leave-room", "disconnect"}

\* The participants a step removed: pairs <<room id, participant id>>.
Removed(rs, rs2) ==
    {x \in {<<rs[i].id, u>> : i \in DOMAIN rs, u \in {"u1", "u2"} \cup Sockets} :
        /\ x[2] \in IdSet(Participants(rs, x[1]))
        /\ x[2] \notin IdSet(Participants(rs2, x[1]))}

\* --------------------------------------------------------------- C1 and C2

\* C1 (invariant I1): every room with at least one participant has exactly
\* one participant with isHost = true.
C1_ExactlyOneHost ==
    \A i \in DOMAIN rooms :
        Len(rooms[i].participants) > 0 => Cardinality(Hosts(rooms[i].participants)) = 1

\* C2: a room never has two or more participants with isHost = true, and has
\* none when its participant map is empty.
C2_AtMostOneHost ==
    \A i \in DOMAIN rooms :
        /\ Cardinality(Hosts(rooms[i].participants)) <= 1
        /\ Len(rooms[i].participants) = 0 => Hosts(rooms[i].participants) = {}

\* A host left a room of three and a successor was promoted: the room still
\* holds two participants, one of them host.
C2_Witness ==
    /\ last.op \in LeaveOps
    /\ \E k \in DOMAIN out : out[k].ev = "host-changed"
    /\ \E i \in DOMAIN rooms :
        /\ Len(rooms[i].participants) = 2
        /\ Cardinality(Hosts(rooms[i].participants)) = 1

\* ----------------------------------------------------------------------- C4

\* C4: a join-room on a room whose participant count is >= maxParticipants
\* sends room-error to the joining connection alone and changes nothing: the
\* registry (participant maps, message logs), the broadcast membership and
\* the pending timers stay as they were, and no other event is emitted.
C4_FullJoinNoEffect ==
    [][(/\ last'.op = "join-room"
        /\ MapHas(rooms, last'.roomId)
        /\ Len(MapGet(rooms, last'.roomId).participants)
              >= MapGet(rooms, last'.roomId).maxParticipants)
       => /\ rooms' = rooms
          /\ adapter' = adapter
          /\ timers' = timers
          /\ connected' = connected
          /\ out' = <<Event("room-error", {last'.socket}, [error |-> "Room is full"])>>]_vars

\* A join-room was refused on a room holding maxParticipants participants.
C4_Witness ==
    /\ last.op = "join-room"
    /\ EventNames(out) = <<"room-error">>
    /\ MapHas(rooms, last.roomId)
    /\ Len(MapGet(rooms, last.roomId).participants)
          = MapGet(rooms, last.roomId).maxParticipants
    /\ last.userId \notin IdSet(MapGet(rooms, last.roomId).participants)

\* ----------------------------------------------------------------------- C6

UserLeftEvents(o) == SelectSeq(o, LAMBDA e : e.ev = "user-left")

\* C6: a leave-room for a participant id that is not in the room (a second
\* leave with no join of that id in between) removes nobody, and a leave or
\* disconnect that removes nobody changes no room state and emits nothing;
\* every leave or disconnect emits exactly one user-left per participant it
\* removes, naming that participant.
C6_LeaveIdempotent ==
    [][last'.op \in LeaveOps =>
        LET gone == Removed(rooms, rooms')
            left == UserLeftEvents(out')
        IN /\ Len(left) = Cardinality(gone)
           /\ \A x \in gone : \E k \in DOMAIN left : left[k].data.userId = x[2]
           /\ \A k \in DOMAIN left : \E x \in gone : left[k].data.userId = x[2]
           /\ gone = {} =>
                /\ rooms' = rooms
                /\ timers' = timers
                /\ out' = <<>>
                /\ last'.op = "leave-room" => adapter' = adapter
           /\ (/\ last'.op = "leave-room"
               /\ last'.userId \notin IdSet(Participants(rooms, last'.roomId)))
              => gone = {}]_vars

\* A leave-room found the room emptied by an earlier leave (its destruction
\* is pending) and did nothing.
C6_Witness ==
    /\ last.op = "leave-room"
    /\ out = <<>>
    /\ MapHas(rooms, last.roomId)
    /\ Len(MapGet(rooms, last.roomId).participants) = 0
    /\ \E tm \in timers : tm.roomId = last.roomId

\* ----------------------------------------------------------------------- C7

\* What C7 says of a step that removed participant u from a room whose map
\* was ps and is ps2 afterwards: who is host, which events are emitted in
\* which order, and, when deliver is set, that every remaining participant's
\* connection is among the recipients of each event.
Succession(ps, ps2, u, o, deliver) ==
    LET rest == MapDelete(ps, u)
        reached == \A k \in DOMAIN o : ConnectionRefs(ps2) \subseteq o[k].to
    IN /\ IF MapGet(ps, u).isHost
          THEN /\ ps2 = [rest EXCEPT ![1].isHost = TRUE]
               /\ EventNames(o) = <<"user-left", "host-changed", "participants-updated">>
               /\ o[1].data.userId = u
               /\ o[2].data.userId = rest[1].id
               /\ o[3].data.participants = ps2
          ELSE /\ ps2 = rest
               /\ EventNames(o) = <<"user-left", "participants-updated">>
               /\ o[1].data.userId = u
               /\ o[2].data.participants = ps2
       /\ deliver => reached

SuccessionStep(deliver) ==
    last'.op \in LeaveOps =>
        \A x \in Removed(rooms, rooms') :
            (/\ Removed(rooms, rooms') = {x}
             /\ Len(Participants(rooms', x[1])) > 0)
            => Succession(Participants(rooms, x[1]), Participants(rooms', x[1]),
                          x[2], out', deliver)

\* C7: when the host leaves a room that still has participants, the first
\* remaining participant in insertion order becomes host and the remaining
\* participants receive user-left, host-changed, participants-updated in that
\* order; when a non-host leaves, the host is unchanged and they receive
\* user-left, then participants-updated.
C7_HostSuccession == [][SuccessionStep(TRUE)]_vars

\* The part of C7 that is about the room state and the order of the events,
\* leaving aside which connections the events reach.
C7_ElectionAndOrder == [][SuccessionStep(FALSE)]_vars

\* ---------------------------------------------------------------- C8 and C9

\* C8: once the disconnect of a connection has been processed, no room
\* contains a participant whose connectionRef is that connection.
C8_DisconnectCleanupComplete ==
    \A s \in closed : \A i \in DOMAIN rooms :
        s \notin ConnectionRefs(rooms[i].participants)

\* The participant entries, over all rooms, whose connectionRef is s.
EntriesOf(s) ==
    {<<i, k>> \in (DOMAIN rooms) \X (1..DefaultMaxParticipants) :
        /\ k \in DOMAIN rooms[i].participants
        /\ rooms[i].participants[k].socketId = s}

\* C9 (invariant I3): each connection is the connectionRef of at most one
\* participant entry across all rooms.
C9_OneMembershipPerConnection ==
    \A s \in Sockets : Cardinality(EntriesOf(s)) <= 1

\* ----------------------------------------------------------------------- C3

Max(a, b) == IF a >= b THEN a ELSE b

\* The last n elements of seq, in order.
LastN(seq, n) == SubSeq(seq, Max(1, Len(seq) - n + 1), Len(seq))

\* C3 (invariant I2): every room's message log has length <= 100 and equals
\* the last min(n, 100) of the n messages posted to the room, in posting
\* order and as they were posted.
C3_BoundedFifoLog ==
    \A i \in DOMAIN rooms :
        /\ Len(rooms[i].messages) <= MaxMessages
        /\ rooms[i].messages = LastN(Posted(posted, rooms[i].id), MaxMessages)

\* The 101st or a later message was just appended: the log is full, the
\* oldest posted message is gone and the newest is the last entry.
C3_Witness ==
    /\ last.op = "send-message"
    /\ \E i \in DOMAIN rooms :
        LET h == Posted(posted, rooms[i].id)
        IN /\ Len(h) > MaxMessages
           /\ Len(rooms[i].messages) = MaxMessages
           /\ rooms[i].messages[MaxMessages] = h[Len(h)]
           /\ \A k \in 1..MaxMessages : rooms[i].messages[k] # h[1]
           /\ out[1].data = h[Len(h)]

\* ----------------------------------------------------------------------- C5

\* C5: a signal whose sender (from, or the sending connection when from is
\* omitted) and recipient both resolve to participants of the room is
\* delivered to exactly one connection, the connectionRef stored for the
\* resolved recipient; when the room does not exist or a side does not
\* resolve, nothing is delivered; no room state changes either way.
C5_SignalToRecipientOnly ==
    [][last'.op = "signal" =>
        /\ rooms' = rooms
        /\ adapter' = adapter
        /\ timers' = timers
        /\ LET ps == Participants(rooms, last'.roomId)
               f == Resolve(ps, last'.from)
               g == Resolve(ps, last'.to)
           IN IF f # 0 /\ g # 0
              THEN /\ EventNames(out') = <<"signal">>
                   /\ out'[1].to = {ps[g].socketId}
              ELSE out' = <<>>]_vars

\* ---------------------------------------------------------------------- C10

\* The time of the leave that most recently emptied room roomId: each such
\* leave schedules a timer due GraceDelay later.
EmptiedAt(roomId) ==
    LET due == {tm.due : tm \in {x \in timers : x.roomId = roomId}}
    IN (CHOOSE d \in due : \A e \in due : e <= d) - GraceDelay

\* C10: a room emptied by a leave is removed from the registry only when it
\* has been empty for the full grace delay since the leave that most recently
\* emptied it.
C10_GraceDelay ==
    [][\A i \in DOMAIN rooms :
          (/\ ~MapHas(rooms', rooms[i].id)
           /\ \E tm \in timers : tm.roomId = rooms[i].id)
          => now >= EmptiedAt(rooms[i].id) + GraceDelay]_vars

\* ---------------------------------------------------------------------- C11

\* The room of timer tm was re-joined after tm was scheduled: it has a
\* participant now, or it was emptied again later (a destruction scheduled
\* after tm is pending).
RejoinedSince(tm) ==
    \/ Len(Participants(rooms, tm.roomId)) > 0
    \/ \E x \in timers : x.roomId = tm.roomId /\ x.due > tm.due

\* No step removes a room that has a participant, and a scheduled
\* destruction that finds a participant in its room deletes nothing and
\* emits nothing.
NoRemovalWhileOccupied ==
    /\ \A i \in DOMAIN rooms :
          Len(rooms[i].participants) > 0 => MapHas(rooms', rooms[i].id)
    /\ last'.op = "timeout" =>
          \A tm \in timers \ timers' :
              Len(Participants(rooms, tm.roomId)) > 0 => rooms' = rooms /\ out' = <<>>

\* A join-room into a room that is in the registry without participants
\* finds the room's message log as it is stored and makes the joiner host.
RejoinFindsLog ==
    (/\ last'.op = "join-room"
     /\ MapHas(rooms, last'.roomId)
     /\ Len(Participants(rooms, last'.roomId)) = 0
     /\ EventNames(out') # <<"room-error">>)
    => /\ MapGet(rooms', last'.roomId).messages = MapGet(rooms, last'.roomId).messages
       /\ out'[1].ev = "room-state"
       /\ out'[1].data.messages = MapGet(rooms, last'.roomId).messages
       /\ MapGet(Participants(rooms', last'.roomId), last'.userId).isHost

\* C11: a room is never removed while it has a participant; a scheduled
\* destruction that fires for a room that was re-joined before its expiry
\* deletes nothing and emits no room-removed; the re-joining participant
\* finds the message log intact and becomes host.
C11_RejoinCancelsDestruction ==
    [][/\ NoRemovalWhileOccupied
       /\ RejoinFindsLog
       /\ last'.op = "timeout" =>
             \A tm \in timers \ timers' :
                 RejoinedSince(tm) => rooms' = rooms /\ out' = <<>>]_vars

\* The part of C11 that does not depend on a room being left again before
\* the destruction fires.
C11_OccupiedRoomKept == [][NoRemovalWhileOccupied /\ RejoinFindsLog]_vars

\* ---------------------------------------------------------------------- C12

\* C12: create-room with an id that is in the registry leaves the registry
\* (every room's metadata, participants and log) unchanged and emits only
\* room-creation-error, to the creator alone; create-room with an absent id
\* appends exactly one room, empty, and emits room-created to the creator and
\* room-added to every other open connection.
C12_CreateRoom ==
    [][last'.op = "create-room" =>
          IF MapHas(rooms, last'.roomId)
          THEN /\ rooms' = rooms
               /\ EventNames(out') = <<"room-creation-error">>
               /\ out'[1].to = {last'.socket}
          ELSE /\ Len(rooms') = Len(rooms) + 1
               /\ \A i \in DOMAIN rooms : rooms'[i] = rooms[i]
               /\ rooms'[Len(rooms')].id = last'.roomId
               /\ rooms'[Len(rooms')].participants = <<>>
               /\ rooms'[Len(rooms')].messages = <<>>
               /\ EventNames(out') = <<"room-created", "room-added">>
               /\ out'[1].to = {last'.socket}
               /\ out'[2].to = connected \ {last'.socket}]_vars

\* A create-room was refused for the id of a room that has a participant,
\* while another room and another connection exist.
C12_Witness ==
    /\ last.op = "create-room"
    /\ EventNames(out) = <<"room-creation-error">>
    /\ Len(Participants(rooms, last.roomId)) > 0
    /\ Len(rooms) = 2
    /\ connected = LobbySockets

\* A create-room for an absent id succeeded beside an existing room and was
\* announced to the other connection.
C12_WitnessCreated ==
    /\ last.op = "create-room"
    /\ EventNames(out) = <<"room-created", "room-added">>
    /\ out[2].to # {}
    /\ Len(rooms) = 2

\* ---------------------------------------------------------------------- C13

\* The ids of the rooms of registry rs that are public and below capacity.
OpenRoomIds(rs) ==
    {rs[i].id : i \in {j \in DOMAIN rs :
                          /\ rs[j].isPrivate = FALSE
                          /\ Len(rs[j].participants) < rs[j].maxParticipants}}

\* C13: get-rooms answers the requester alone with a list that holds exactly
\* the rooms of the registry with isPrivate = false and fewer participants
\* than maxParticipants, each once and each with participantCount equal to
\* the room's current number of participants, and changes no room state.
C13_GetRooms ==
    [][last'.op = "get-rooms" =>
          LET list == out'[1].data.availableRooms
          IN /\ EventNames(out') = <<"rooms-list">>
             /\ out'[1].to = {last'.socket}
             /\ {list[i].id : i \in DOMAIN list} = OpenRoomIds(rooms)
             /\ Len(list) = Cardinality(OpenRoomIds(rooms))
             /\ \A i \in DOMAIN list :
                   list[i].participantCount = Len(Participants(rooms, list[i].id))
             /\ rooms' = rooms
             /\ adapter' = adapter]_vars

\* get-rooms listed a room that two users joined with participantCount 2 and
\* left out the other room of the registry, which is private or full.
C13_Witness ==
    /\ last.op = "get-rooms"
    /\ Len(rooms) = 2
    /\ Len(out[1].data.availableRooms) = 1
    /\ out[1].data.availableRooms[1].participantCount = 2
    /\ \E i \in DOMAIN rooms :
          rooms[i].isPrivate \/ Len(rooms[i].participants) >= rooms[i].maxParticipants

\* ---------------------------------------------------------------------- C14

ToggleOps == {"toggle-audio", "toggle-video"}

\* Participant q is participant p with at most the flag of operation op
\* changed, to value v.
OnlyFlagSet(p, q, op, v) ==
    /\ q.id = p.id
    /\ q.socketId = p.socketId
    /\ q.isHost = p.isHost
    /\ IF op = "toggle-audio"
       THEN q.isMuted = v /\ q.isVideoEnabled = p.isVideoEnabled
       ELSE q.isVideoEnabled = v /\ q.isMuted = p.isMuted

\* Registry rs2 is registry rs but for the participant entry under userId
\* in room roomId.
SameBut(rs, rs2, roomId, userId) ==
    /\ Len(rs2) = Len(rs)
    /\ \A i \in DOMAIN rs :
          /\ rs2[i].id = rs[i].id
          /\ rs2[i].maxParticipants = rs[i].maxParticipants
          /\ rs2[i].isPrivate = rs[i].isPrivate
          /\ rs2[i].messages = rs[i].messages
          /\ Len(rs2[i].participants) = Len(rs[i].participants)
          /\ \A j \in DOMAIN rs[i].participants :
                (rs[i].id # roomId \/ rs[i].participants[j].id # userId)
                => rs2[i].participants[j] = rs[i].participants[j]

\* C14: toggle-audio (toggle-video) for a participant present in the room
\* sets that participant's isMuted (isVideoEnabled) to the requested value,
\* leaves its other fields, every other participant, the message log and the
\* registry unchanged, and broadcasts user-audio-changed (user-video-changed)
\* with the id and the value to the connections of the room's participants;
\* when the room or the participant is absent nothing changes and nothing is
\* emitted.
C14_ToggleFrame ==
    [][last'.op \in ToggleOps =>
          /\ UNCHANGED <<connected, closed, adapter, timers, posted>>
          /\ IF HasParticipant(rooms, last'.roomId, last'.userId)
             THEN LET ps == Participants(rooms, last'.roomId)
                      ps2 == Participants(rooms', last'.roomId)
                      j == MapIndex(ps, last'.userId)
                  IN /\ SameBut(rooms, rooms', last'.roomId, last'.userId)
                     /\ OnlyFlagSet(ps[j], ps2[j], last'.op, last'.value)
                     /\ EventNames(out') =
                           <<IF last'.op = "toggle-audio" THEN "user-audio-changed"
                             ELSE "user-video-changed">>
                     /\ out'[1].to = ConnectionRefs(ps)
                     /\ out'[1].data.userId = last'.userId
                     /\ IF last'.op = "toggle-audio"
                        THEN out'[1].data.isMuted = last'.value
                        ELSE out'[1].data.isVideoEnabled = last'.value
             ELSE rooms' = rooms /\ out' = <<>>]_vars

\* A toggle-audio changed the flag of one of two participants whose video
\* flag is on.
C14_Witness ==
    /\ last.op = "toggle-audio"
    /\ HasParticipant(rooms, last.roomId, last.userId)
    /\ Len(Participants(rooms, last.roomId)) = 2
    /\ MapGet(Participants(rooms, last.roomId), last.userId).isMuted = FALSE
    /\ MapGet(Participants(rooms, last.roomId), last.userId).isVideoEnabled
    /\ Cardinality(out[1].to) = 2

\* ---------------------------------------------------------------------- C15

\* C15: every send-message to a room of the registry stores the message and
\* delivers one new-message carrying the stored message to the connection of
\* every participant of the room, the sender's own included.
C15_MessageReachesEveryParticipant ==
    [][(last'.op = "send-message" /\ MapHas(rooms, last'.roomId)) =>
          LET log == MapGet(rooms', last'.roomId).messages
          IN /\ EventNames(out') = <<"new-message">>
             /\ out'[1].data = log[Len(log)]
             /\ ConnectionRefs(Participants(rooms, last'.roomId)) \subseteq out'[1].to]_vars

\* What holds of the delivery: the one new-message carries the stored message
\* and goes to the connections subscribed to the room's broadcasts.
C15_MessageReachesSubscribers ==
    [][(last'.op = "send-message" /\ MapHas(rooms, last'.roomId)) =>
          LET log == MapGet(rooms', last'.roomId).messages
          IN /\ EventNames(out') = <<"new-message">>
             /\ out'[1].data = log[Len(log)]
             /\ out'[1].to = InRoom(adapter, last'.roomId)]_vars

\* ---------------------------------------------------------------------- C16

\* The step is a join-room that was not refused.
JoinedStep == last'.op = "join-room" /\ EventNames(out') # <<"room-error">>

\* The connections of the participants of ps other than the one under userId.
OtherConnections(ps, userId) == {ps[i].socketId : i \in {j \in DOMAIN ps : ps[j].id # userId}}

\* The snapshot part: room-state goes to the joiner alone and carries the
\* room as stored after the join; user-joined carries the joiner's id and the
\* updated id list and does not go to the joiner.
JoinSnapshot ==
    LET room2 == MapGet(rooms', last'.roomId)
    IN /\ EventNames(out') = <<"room-state", "user-joined">>
       /\ out'[1].to = {last'.socket}
       /\ out'[1].data.room = FormatRoomForClient(room2)
       /\ out'[1].data.participants = room2.participants
       /\ MapHas(out'[1].data.participants, last'.userId)
       /\ out'[1].data.messages = room2.messages
       /\ out'[2].data.userId = last'.userId
       /\ out'[2].data.participants = Ids(room2.participants)
       /\ last'.socket \notin out'[2].to

\* C16: on a successful join-room the room-state snapshot (room, participant
\* list with the joiner, message log) is sent only to the joining connection,
\* and user-joined with the updated id list is sent to the connection of
\* every other participant of the room and not to the joiner.
C16_JoinAnnounced ==
    [][JoinedStep =>
          /\ JoinSnapshot
          /\ (OtherConnections(Participants(rooms', last'.roomId), last'.userId)
                 \ {last'.socket}) \subseteq out'[2].to]_vars

\* What holds of C16: the snapshot part, with user-joined going to the
\* room's subscribers other than the joiner.
C16_SnapshotToJoinerOnly ==
    [][JoinedStep =>
          /\ JoinSnapshot
          /\ out'[2].to = InRoom(adapter', last'.roomId) \ {last'.socket}]_vars

\* ---------------------------------------------------------------------- C17

RoomBroadcasts ==
    {"new-message", "user-joined", "user-left", "host-changed", "participants-updated",
     "user-audio-changed", "user-video-changed"}

\* C17: a connection is subscribed to the broadcasts of a room of the
\* registry only if some current participant of that room has it as its
\* connection.
C17_SubscribersAreParticipants ==
    \A i \in DOMAIN rooms :
        InRoom(adapter, rooms[i].id) \subseteq ConnectionRefs(rooms[i].participants)

\* C17, as deliveries: a room broadcast of a step reaches only connections
\* of participants the room has before or after the step.
C17_BroadcastsReachParticipantsOnly ==
    [][\A k \in DOMAIN out' :
          (out'[k].ev \in RoomBroadcasts /\ "roomId" \in DOMAIN last') =>
              out'[k].to \subseteq
                  (ConnectionRefs(Participants(rooms, last'.roomId))
                      \cup ConnectionRefs(Participants(rooms', last'.roomId)))]_vars

\* ---------------------------------------------------------------------- C18

\* Room r1 is in the registry without participants.
Abandoned == MapHas(rooms, "r1") /\ Len(Participants(rooms, "r1")) = 0

\* A step that removes room r1 announces it with room-removed to every open
\* connection.
RemovalAnnounced ==
    (MapHas(rooms, "r1") /\ ~MapHas(rooms', "r1")) =>
        /\ EventNames(out') = <<"room-removed">>
        /\ out'[1].to = connected
        /\ out'[1].data.roomId = "r1"

\* C18: with time passing and due timers firing, no room stays in the
\* registry without participants forever, whether it was emptied by
\* leave-room or disconnect or created by create-room and never joined, and
\* its removal is announced with room-removed.
C18_AbandonedRoomRemoved ==
    /\ Abandoned ~> ~Abandoned
    /\ [][RemovalAnnounced]_vars

\* What holds of C18: a room without participants that has a destruction
\* pending (it was emptied by leave-room or disconnect) does not stay so, and
\* every removal is announced.
C18_EmptiedRoomRemoved ==
    /\ (Abandoned /\ \E tm \in timers : tm.roomId = "r1") ~> ~Abandoned
    /\ [][RemovalAnnounced]_vars

\* The finite form of C18: every room without participants has a
\* destruction pending.
C18_AbandonedRoomHasTimer ==
    Abandoned => \E tm \in timers : tm.roomId = "r1"

\* Why the clock's bound does not matter to C18: a room without participants
\* and without a pending destruction stays in the registry, and without a
\* pending destruction, through every step other than a join-room.
C18_NoTimerNoRemoval ==
    [][(Abandoned /\ timers = {} /\ last'.op # "join-room") =>
          (Abandoned /\ timers = {})']_vars

\* ---------------------------------------------------------------------- C19

\* C19: every room of the registry whose maxParticipants is at least 1 has
\* at most maxParticipants participants.
C19_Capacity ==
    \A i \in DOMAIN rooms :
        rooms[i].maxParticipants >= 1 =>
            Len(rooms[i].participants) <= rooms[i].maxParticipants

\* A join-room was refused by a room that holds maxParticipants = 2
\* participants, one of them under a caller-supplied id.
C19_Witness ==
    /\ last.op = "join-room"
    /\ EventNames(out) = <<"room-error">>
    /\ MapGet(rooms, last.roomId).maxParticipants = 2
    /\ Len(Participants(rooms, last.roomId)) = 2
    /\ "u1" \in IdSet(Participants(rooms, last.roomId))

\* ---------------------------------------------------------------------- C20

\* The step delivered a signal to some connection.
SignalDelivered ==
    /\ last'.op = "signal"
    /\ EventNames(out') = <<"signal">>
    /\ out'[1].to # {}

\* C20: the from value of every delivered signal is the id of a participant
\* of the room whose connection is the connection that sent the signal.
C20_SenderAuthentic ==
    [][SignalDelivered =>
          \E i \in DOMAIN Participants(rooms, last'.roomId) :
              /\ Participants(rooms, last'.roomId)[i].socketId = last'.socket
              /\ Participants(rooms, last'.roomId)[i].id = out'[1].data.from]_vars

\* What holds of the attribution: the from value of a delivered signal is
\* the id of the participant the caller-supplied from (the sending
\* connection's id when it is omitted) resolves to.
C20_FromIsResolvedSender ==
    [][SignalDelivered =>
          LET ps == Participants(rooms, last'.roomId)
          IN /\ Resolve(ps, last'.from) # 0
             /\ out'[1].data.from = ps[Resolve(ps, last'.from)].id]_vars

====
